---- MODULE Spec2Model ----
(***************************************************************************)
(* A model of the photo-library toolkit: organize_photos.py (date          *)
(* resolution, collision-safe filing, the directory walk) and              *)
(* find_duplicates.py (per-folder duplicate clustering).                   *)
(*                                                                         *)
(* Strings are sequences of tokens.  A token is a character ("a", "/",     *)
(* "_") or an atomic run of characters that is never split ("jpg",         *)
(* "2020").  A file name is a base (token sequence) and an extension (one  *)
(* token, written without its dot).  A directory is the sequence of its    *)
(* components from the filesystem root; a component is a token sequence.   *)
(* The filesystem is case-sensitive (POSIX).                               *)
(***************************************************************************)
EXTENDS Integers, Sequences, FiniteSets, TLC

VARIABLES cfg, fs, dirs, pc, stack, files, root, stats, run, nfail, returned, last, filed, fs0, dq, dup, scan, cln

vars == <<cfg, fs, dirs, pc, stack, files, root, stats, run, nfail, returned, last, filed, fs0, dq, dup, scan, cln>>

\* the state of a filing run, the filesystem's files apart
orgVars == <<cfg, dirs, pc, stack, files, root, stats, run, nfail, returned, last, filed, fs0>>

(***************************************************************************)
(* Strings                                                                 *)
(***************************************************************************)

\* str.lower() on the tokens of the model
LowerTable ==
    [O |-> "o", A |-> "a", B |-> "b", F |-> "f", I |-> "i", N |-> "n", L |-> "l",
     E |-> "e", K |-> "k",
     JPG |-> "jpg", Jpg |-> "jpg", JPEG |-> "jpeg", PNG |-> "png", CR2 |-> "cr2",
     XMP |-> "xmp", GIF |-> "gif", TXT |-> "txt",
     NEF |-> "nef", Nef |-> "nef", ARW |-> "arw", DNG |-> "dng", RAF |-> "raf"]

\* str.upper() on the tokens of the model
UpperTable ==
    [o |-> "O", a |-> "A", b |-> "B",
     jpg |-> "JPG", Jpg |-> "JPG", jpeg |-> "JPEG", png |-> "PNG", cr2 |-> "CR2",
     xmp |-> "XMP", gif |-> "GIF", txt |-> "TXT",
     nef |-> "NEF", Nef |-> "NEF", arw |-> "ARW", dng |-> "DNG", raf |-> "RAF"]

LowerTok(c) == IF c \in DOMAIN LowerTable THEN LowerTable[c] ELSE c

UpperTok(c) == IF c \in DOMAIN UpperTable THEN UpperTable[c] ELSE c

LowerStr(s) == [i \in 1..Len(s) |-> LowerTok(s[i])]

StartsWith(s, pre) == Len(pre) <= Len(s) /\ SubSeq(s, 1, Len(pre)) = pre

\* str(counter) for the counters the model reaches
Digits == <<"1", "2", "3", "4", "5", "6", "7", "8", "9">>

IntStr(n) == Digits[n]

(***************************************************************************)
(* Dates                                                                   *)
(***************************************************************************)

D1 == [y |-> "2020", md |-> "0102", hms |-> "030405"]

D2 == [y |-> "2021", md |-> "0504", hms |-> "100000"]

D3 == [y |-> "2019", md |-> "0708", hms |-> "090000"]

D4 == [y |-> "2018", md |-> "1112", hms |-> "235959"]

\* the time of the run: what the filesystem stamps on a file it creates
Today == [y |-> "2026", md |-> "1106", hms |-> "120000"]

\* datetime.strptime(value, "%Y:%m:%d %H:%M:%S"): the parsed date, or {} when it raises
StrptimeTable ==
    [v20200102 |-> {D1}, v20210504 |-> {D2}, v20190708 |-> {D3}, v00000000 |-> {}, vgarbage |-> {}]

strptime(value) == StrptimeTable[value]

\* photo_date.strftime("%Y")
strftime_Y(d) == <<d.y>>

\* photo_date.strftime("%Y%m%d")
strftime_Ymd(d) == <<d.y, d.md>>

(***************************************************************************)
(* Files.  A file is [dir, base, ext, id, exif, fsd]:                      *)
(*   id    its content;                                                    *)
(*   exif  [readable, tags]: whether PIL opens it and reads its EXIF, and  *)
(*         the EXIF items <<tag, value>> in the order the dict lists them; *)
(*   fsd   {d}: os.stat and datetime.fromtimestamp give d; {}: they raise. *)
(***************************************************************************)

PathOf(f) == [dir |-> f.dir, base |-> f.base, ext |-> f.ext]

\* os.path.exists / Path.exists on a file path
Exists(fsys, p) == \E f \in fsys : PathOf(f) = p

FileAt(fsys, p) == CHOOSE f \in fsys : PathOf(f) = p

NoExif == [readable |-> TRUE, tags |-> <<>>]

BadImage == [readable |-> FALSE, tags |-> <<>>]

ExifOrig(v) == [readable |-> TRUE, tags |-> <<<<"DateTimeOriginal", v>>>>]

RECURSIVE exif_scan(_, _, _, _)
\* the loop over exif_data.items(): date_taken and date_digitized as they are
\* assigned, raising as soon as one strptime raises
exif_scan(items, i, taken, digitized) ==
    IF i > Len(items) THEN [raised |-> FALSE, taken |-> taken, digitized |-> digitized]
    ELSE IF items[i][1] = "DateTimeOriginal"
         THEN IF strptime(items[i][2]) = {}
              THEN [raised |-> TRUE, taken |-> taken, digitized |-> digitized]
              ELSE exif_scan(items, i + 1, strptime(items[i][2]), digitized)
    ELSE IF items[i][1] = "DateTimeDigitized"
         THEN IF strptime(items[i][2]) = {}
              THEN [raised |-> TRUE, taken |-> taken, digitized |-> digitized]
              ELSE exif_scan(items, i + 1, taken, strptime(items[i][2]))
    ELSE exif_scan(items, i + 1, taken, digitized)

\* get_exif_date: {d} for a date, {} for None; every exception ends in None
get_exif_date(fsys, p) ==
    LET f == FileAt(fsys, p)
        r == exif_scan(f.exif.tags, 1, {}, {})
    IN  IF ~f.exif.readable THEN {}
        ELSE IF f.exif.tags = <<>> THEN {}
        ELSE IF r.raised THEN {}
        ELSE IF r.taken # {} THEN r.taken
        ELSE IF r.digitized # {} THEN r.digitized
        ELSE {}

\* a creation-date reader that answers with the current time instead of raising
get_file_creation_date_now(fsys, p) ==
    LET f == FileAt(fsys, p)
    IN  IF f.fsd = {} THEN [raised |-> FALSE, date |-> {[y |-> "2026", md |-> "1106", hms |-> "120000"]}]
        ELSE [raised |-> FALSE, date |-> f.fsd]

\* get_file_creation_date: the file's date, or a raise (os.stat or fromtimestamp fails)
get_file_creation_date(fsys, p) ==
    LET f == FileAt(fsys, p)
    IN  IF f.fsd = {} THEN [raised |-> TRUE, date |-> {}]
        ELSE [raised |-> FALSE, date |-> f.fsd]

raw_extensions == <<"nef", "arw", "dng", "raf">>

\* candidates that try the upper-case form of an extension before the lower-case one
RawCandidatesUpperFirst ==
    [k \in 1..(2 * Len(raw_extensions)) |->
        IF k % 2 = 1 THEN UpperTok(raw_extensions[(k + 1) \div 2])
        ELSE raw_extensions[k \div 2]]

\* the candidates in the order the two nested loops try them
RawCandidates ==
    [k \in 1..(2 * Len(raw_extensions)) |->
        IF k % 2 = 1 THEN raw_extensions[(k + 1) \div 2]
        ELSE UpperTok(raw_extensions[k \div 2])]

RECURSIVE raw_search(_, _, _)
raw_search(fsys, p, k) ==
    IF k > Len(RawCandidates) THEN {}
    ELSE IF Exists(fsys, [dir |-> p.dir, base |-> p.base, ext |-> RawCandidates[k]])
         THEN {[dir |-> p.dir, base |-> p.base, ext |-> RawCandidates[k]]}
    ELSE raw_search(fsys, p, k + 1)

\* find_matching_raw_file: {raw path} or {} for None
find_matching_raw_file(fsys, p) == raw_search(fsys, p, 1)

RawSiblingExts == {"jpg", "jpeg", "cr2", "png", "xmp"}

\* a RAW-sibling branch that reads the file's own EXIF when it finds no companion
photo_date_from_raw_or_own_exif(fsys, p) ==
    LET raw_file == find_matching_raw_file(fsys, p)
        rp == IF raw_file # {} THEN CHOOSE r \in raw_file : TRUE ELSE p
    IN  IF get_exif_date(fsys, rp) # {} THEN [raised |-> FALSE, date |-> get_exif_date(fsys, rp)]
        ELSE get_file_creation_date(fsys, rp)

\* the RAW-sibling branch of get_photo_date
photo_date_from_raw(fsys, p) ==
    LET raw_file == find_matching_raw_file(fsys, p)
    IN  IF raw_file # {}
        THEN LET rp == CHOOSE r \in raw_file : TRUE
                 exif_date == get_exif_date(fsys, rp)
             IN  IF exif_date # {} THEN [raised |-> FALSE, date |-> exif_date]
                 ELSE get_file_creation_date(fsys, rp)
        ELSE get_file_creation_date(fsys, p)

\* the branch of get_photo_date for the other formats
photo_date_own(fsys, p) ==
    LET exif_date == get_exif_date(fsys, p)
    IN  IF exif_date # {} THEN [raised |-> FALSE, date |-> exif_date]
        ELSE get_file_creation_date(fsys, p)

\* get_photo_date: [raised, date]
get_photo_date(fsys, p) ==
    IF LowerTok(p.ext) \in RawSiblingExts THEN photo_date_from_raw(fsys, p)
    ELSE photo_date_own(fsys, p)

image_extensions ==
    {"jpg", "jpeg", "png", "gif", "bmp", "tiff", "tif", "webp", "heic", "heif",
     "raw", "cr2", "nef", "arw", "dng", "orf", "rw2", "pef", "srw", "raf",
     "psd", "xmp", "avi", "mov", "wmv"}

is_image_file(p) == LowerTok(p.ext) \in image_extensions

(***************************************************************************)
(* Paths and the walk's exclusion test                                     *)
(***************************************************************************)

RECURSIVE JoinComps(_)
JoinComps(d) == IF d = <<>> THEN <<>> ELSE <<"/">> \o Head(d) \o JoinComps(Tail(d))

\* os.path.normpath(os.path.abspath(d)).lower(): the root directory is "/"
normalized(d) == LowerStr(IF d = <<>> THEN <<"/">> ELSE JoinComps(d))

\* the test that makes the walk skip a directory (os.sep is "/")
walk_skips(rootdir, destination_folder) ==
    \/ normalized(rootdir) = normalized(destination_folder)
    \/ StartsWith(normalized(rootdir), normalized(destination_folder) \o <<"/">>)

\* directory d is dest or lies under it (by components: what "nested under" means)
IsUnder(d, dest) == Len(dest) <= Len(d) /\ SubSeq(d, 1, Len(dest)) = dest

Prefixes(d) == {SubSeq(d, 1, k) : k \in 0..Len(d)}

\* the orders in which a listing can give the members of S
RECURSIVE Orders(_)
Orders(S) == IF S = {} THEN {<<>>} ELSE UNION {{<<x>> \o s : s \in Orders(S \ {x})} : x \in S}

RECURSIVE SetsUpTo(_, _)
\* the subsets of S of at most k members
SetsUpTo(S, k) ==
    IF k = 0 THEN {{}}
    ELSE SetsUpTo(S, k - 1) \cup {Q \cup {x} : Q \in SetsUpTo(S, k - 1), x \in S}

(***************************************************************************)
(* The filing planner                                                      *)
(***************************************************************************)

\* os.path.join(destination_folder, year_folder, day_folder, file_ext)
target_dir_of(destination_folder, p, photo_date) ==
    destination_folder \o <<strftime_Y(photo_date), strftime_Ymd(photo_date), <<UpperTok(p.ext)>>>>

\* a suffix search that names the file one counter too far
suffix_search_skips_one(fsys, target_dir, p, counter) ==
    [dir |-> target_dir, base |-> p.base \o <<"_", IntStr(counter + 1)>>, ext |-> p.ext]

RECURSIVE suffix_search(_, _, _, _)
\* the while loop: base_counter.ext for counter = 1, 2, ... until no such path exists
suffix_search(fsys, target_dir, p, counter) ==
    LET cand == [dir |-> target_dir, base |-> p.base \o <<"_", IntStr(counter)>>, ext |-> p.ext]
    IN  IF Exists(fsys, cand) THEN suffix_search(fsys, target_dir, p, counter + 1) ELSE cand

\* a planner that keeps the original file name whatever the directory holds
target_path_keeps_name(fsys, target_dir, p) == [dir |-> target_dir, base |-> p.base, ext |-> p.ext]

\* the target path of a file named like p in target_dir
target_path_of(fsys, target_dir, p) ==
    IF Exists(fsys, [dir |-> target_dir, base |-> p.base, ext |-> p.ext])
    THEN suffix_search(fsys, target_dir, p, 1)
    ELSE [dir |-> target_dir, base |-> p.base, ext |-> p.ext]

\* what is at path t once f's content has been written there
Written(f, t, stamp) == [f EXCEPT !.dir = t.dir, !.base = t.base, !.ext = t.ext, !.fsd = stamp]

\* a move that leaves the source file in place
copy_or_move_keeps_source(fsys, src, tgt, copy_files) ==
    {g \in fsys : PathOf(g) # tgt} \cup {Written(FileAt(fsys, src), tgt, {Today})}

\* shutil.copy2(file_path, target_path) / shutil.move(file_path, target_path): the
\* content lands at target_path, replacing whatever file was there; a copy is a
\* new file of today, a move takes the source away
copy_or_move(fsys, src, tgt, copy_files) ==
    LET f == FileAt(fsys, src)
        rest == {g \in fsys : PathOf(g) # tgt}
    IN  IF copy_files THEN rest \cup {Written(f, tgt, {Today})}
        ELSE (rest \ {f}) \cup {Written(f, tgt, f.fsd)}

\* stats["total_found"] += 1
count_found(st) == [st EXCEPT !.total_found = @ + 1]

\* a success counter that counts every filed file twice
count_organized_twice(st) == [st EXCEPT !.organized = @ + 2]

\* stats["organized"] += 1
count_organized(st) == [st EXCEPT !.organized = @ + 1]

\* an except block that records the message and forgets the counter
count_error_no_skip(st, p, why) == [st EXCEPT !.errors = Append(@, [path |-> p, why |-> why])]

\* the except block: stats["skipped"] += 1 and one message appended
count_error(st, p, why) ==
    [st EXCEPT !.skipped = @ + 1, !.errors = Append(@, [path |-> p, why |-> why])]

(***************************************************************************)
(* Bounds and the inputs of a filing run                                   *)
(***************************************************************************)

\* files in the tree when the first run starts
MaxFiles == 2

\* calls of organize_photos, one after the other, with the same arguments
MaxRuns == 2

\* I/O failures (os.makedirs, shutil.copy2, shutil.move) over the runs
MaxFaults == 1

SrcDir == <<<<"s">>>>

\* a sibling of DestInside whose name begins with the destination's name
SibDir == <<<<"s">>, <<"o", "b">>>>

\* the default destination, source_folder/Organized
DestInside == <<<<"s">>, <<"o">>>>

DestOutside == <<<<"d">>>>

\* the filesystem root as destination
RootDir == <<>>

Destinations == {DestInside, DestOutside, RootDir}

MkFile(d, b, e, id, exif, fsd) ==
    [dir |-> d, base |-> b, ext |-> e, id |-> id, exif |-> exif, fsd |-> fsd]

\* where an earlier run filed the .jpg files of D1
FiledJpgDir(dest) == dest \o <<<<"2020">>, <<"2020", "0102">>, <<"JPG">>>>

\* the files a tree can hold when the first run starts
Candidates(dest) ==
    {MkFile(SrcDir, <<"a">>, "jpg", 1, ExifOrig("v20210504"), fsd) : fsd \in {{D1}, {}}}
    \cup {MkFile(SrcDir, <<"a">>, "NEF", 2, exif, {D1}) : exif \in {NoExif, ExifOrig("v20210504")}}
    \cup {MkFile(SibDir, <<"a">>, "jpg", 3, NoExif, {D1}),
          MkFile(SrcDir, <<"n">>, "txt", 4, NoExif, {D1}),
          MkFile(FiledJpgDir(dest), <<"a">>, "jpg", 5, NoExif, {Today}),
          MkFile(FiledJpgDir(dest), <<"a", "_", "2">>, "jpg", 6, NoExif, {Today})}

InitialTrees(dest) ==
    {F \in SetsUpTo(Candidates(dest), MaxFiles) : \A f, g \in F : PathOf(f) = PathOf(g) => f = g}

NoPath == [dir |-> <<>>, base |-> <<>>, ext |-> ""]

NoStep == [kind |-> "none", src |-> NoPath, tgt |-> NoPath, date |-> {}]

NewStats == [total_found |-> 0, organized |-> 0, skipped |-> 0, errors |-> <<>>]

NoQuery == [phase |-> "off", path |-> NoPath, res |-> [raised |-> FALSE, date |-> {}]]

NoDup == [phase |-> "off", listing |-> <<>>, out |-> <<>>]

NoScan == [phase |-> "off"]

NoCleanup == [phase |-> "off"]

(***************************************************************************)
(* organize_photos(source_folder, destination_folder, copy_files)          *)
(***************************************************************************)

Init ==
    /\ cfg \in [source : {SrcDir}, dest : Destinations, copy_files : BOOLEAN]
    /\ fs \in InitialTrees(cfg.dest)
    /\ dirs = UNION {Prefixes(f.dir) : f \in fs} \cup Prefixes(cfg.source)
    /\ pc = "idle"
    /\ stack = <<>>
    /\ files = <<>>
    /\ root = <<>>
    /\ stats = NewStats
    /\ run = 0
    /\ nfail = 0
    /\ returned = <<>>
    /\ last = NoStep
    /\ filed = {}
    /\ fs0 = fs
    /\ dq = NoQuery
    /\ dup = NoDup
    /\ scan = NoScan
    /\ cln = NoCleanup

\* a call of organize_photos: the statistics are new, the walk starts at source_folder
StartRun ==
    /\ pc = "idle"
    /\ run < MaxRuns
    /\ pc' = "walk"
    /\ run' = run + 1
    /\ stats' = NewStats
    /\ stack' = <<cfg.source>>
    /\ files' = <<>>
    /\ root' = <<>>
    /\ fs0' = fs
    /\ last' = [NoStep EXCEPT !.kind = "start"]
    /\ UNCHANGED <<cfg, fs, dirs, nfail, returned, filed, dq, dup, scan, cln>>

\* os.walk yields its next directory: it lists the directory now, in some order,
\* and will descend into every subdirectory it listed; the loop body skips the
\* directory's files when it lies in the destination
ListDir ==
    /\ pc = "walk"
    /\ files = <<>>
    /\ stack # <<>>
    /\ LET top == Head(stack)
           subdirs == {d \in dirs : Len(d) = Len(top) + 1 /\ SubSeq(d, 1, Len(top)) = top}
           names == {[base |-> f.base, ext |-> f.ext] : f \in {g \in fs : g.dir = top}}
       IN  /\ \E dorder \in Orders(subdirs) : stack' = dorder \o Tail(stack)
           /\ root' = top
           /\ files' \in IF walk_skips(top, cfg.dest) THEN {<<>>} ELSE Orders(names)
    /\ last' = [NoStep EXCEPT !.kind = "list"]
    /\ UNCHANGED <<cfg, fs, dirs, pc, stats, run, nfail, returned, filed, fs0, dq, dup, scan, cln>>

\* os.path.join(root, filename) for the file the inner loop is at
file_path == [dir |-> root, base |-> Head(files).base, ext |-> Head(files).ext]

\* os.makedirs(target_dir, exist_ok=True)
makedirs(ds, target_dir) == ds \cup Prefixes(target_dir)

\* the loop body on a file that is not a media file: continue
SkipNonMedia ==
    /\ pc = "walk"
    /\ files # <<>>
    /\ ~is_image_file(file_path)
    /\ files' = Tail(files)
    /\ last' = [NoStep EXCEPT !.kind = "nonmedia", !.src = file_path]
    /\ UNCHANGED <<cfg, fs, dirs, pc, stack, root, stats, run, nfail, returned, filed, fs0, dq, dup, scan, cln>>

\* the loop body when every step succeeds
FileOk ==
    /\ pc = "walk"
    /\ files # <<>>
    /\ is_image_file(file_path)
    /\ ~get_photo_date(fs, file_path).raised
    /\ LET photo_date == CHOOSE d \in get_photo_date(fs, file_path).date : TRUE
           target_dir == target_dir_of(cfg.dest, file_path, photo_date)
           target_path == target_path_of(fs, target_dir, file_path)
       IN  /\ dirs' = makedirs(dirs, target_dir)
           /\ fs' = copy_or_move(fs, file_path, target_path, cfg.copy_files)
           /\ stats' = count_organized(count_found(stats))
           /\ last' = [kind |-> "filed", src |-> file_path, tgt |-> target_path, date |-> {photo_date}]
           /\ filed' = filed \cup {[run |-> run, src |-> file_path, tgt |-> target_path]}
    /\ files' = Tail(files)
    /\ UNCHANGED <<cfg, pc, stack, root, run, nfail, returned, fs0, dq, dup, scan, cln>>

\* the loop body when get_photo_date raises
FileDateFails ==
    /\ pc = "walk"
    /\ files # <<>>
    /\ is_image_file(file_path)
    /\ get_photo_date(fs, file_path).raised
    /\ stats' = count_error(count_found(stats), file_path, "date")
    /\ last' = [NoStep EXCEPT !.kind = "failed", !.src = file_path]
    /\ files' = Tail(files)
    /\ UNCHANGED <<cfg, fs, dirs, pc, stack, root, run, nfail, returned, filed, fs0, dq, dup, scan, cln>>

\* the loop body when os.makedirs raises
FileMakedirsFails ==
    /\ pc = "walk"
    /\ files # <<>>
    /\ is_image_file(file_path)
    /\ ~get_photo_date(fs, file_path).raised
    /\ nfail < MaxFaults
    /\ nfail' = nfail + 1
    /\ stats' = count_error(count_found(stats), file_path, "makedirs")
    /\ last' = [NoStep EXCEPT !.kind = "failed", !.src = file_path,
                              !.date = get_photo_date(fs, file_path).date]
    /\ files' = Tail(files)
    /\ UNCHANGED <<cfg, fs, dirs, pc, stack, root, run, returned, filed, fs0, dq, dup, scan, cln>>

\* the loop body when shutil.copy2 / shutil.move raises: the source is still
\* there, and the target path holds nothing or what was written before the failure
FileTransferFails ==
    /\ pc = "walk"
    /\ files # <<>>
    /\ is_image_file(file_path)
    /\ ~get_photo_date(fs, file_path).raised
    /\ nfail < MaxFaults
    /\ nfail' = nfail + 1
    /\ LET photo_date == CHOOSE d \in get_photo_date(fs, file_path).date : TRUE
           target_dir == target_dir_of(cfg.dest, file_path, photo_date)
           target_path == target_path_of(fs, target_dir, file_path)
       IN  /\ dirs' = makedirs(dirs, target_dir)
           /\ \E partial \in BOOLEAN :
                 fs' = IF partial
                       THEN copy_or_move(fs, file_path, target_path, TRUE)
                       ELSE fs
           /\ last' = [kind |-> "failed", src |-> file_path, tgt |-> target_path, date |-> {photo_date}]
    /\ stats' = count_error(count_found(stats), file_path, "transfer")
    /\ files' = Tail(files)
    /\ UNCHANGED <<cfg, pc, stack, root, run, returned, filed, fs0, dq, dup, scan, cln>>

\* the walk is over: return stats
Return ==
    /\ pc = "walk"
    /\ files = <<>>
    /\ stack = <<>>
    /\ pc' = "idle"
    /\ returned' = Append(returned, stats)
    /\ last' = [NoStep EXCEPT !.kind = "return"]
    /\ UNCHANGED <<cfg, fs, dirs, stack, files, root, stats, run, nfail, filed, fs0, dq, dup, scan, cln>>

Next ==
    \/ StartRun
    \/ ListDir
    \/ SkipNonMedia
    \/ FileOk
    \/ FileDateFails
    \/ FileMakedirsFails
    \/ FileTransferFails
    \/ Return

Spec == Init /\ [][Next]_vars

(***************************************************************************)
(* Properties of a filing run                                              *)
(***************************************************************************)

InDestination(f) == IsUnder(f.dir, cfg.dest)

\* the file names base, base_1, base_2, ... of the first k filings under one name
SuffixedBases(b, k) == {b} \cup {b \o <<"_", IntStr(n)>> : n \in 1..(k - 1)}

\* C1: no step of a filing run overwrites or replaces a file: whatever a step
\* writes lands on a path that held no file before the step, and every file of
\* the destination tree is still in the destination tree with its content after
\* the step (at its path, or, when the step moved that very file, at the path it
\* was moved to).
C1_NeverOverwrites ==
    [][/\ \A g \in fs' \ fs : ~Exists(fs, PathOf(g))
       /\ \A f \in fs : InDestination(f) =>
             \/ f \in fs'
             \/ /\ ~cfg.copy_files
                /\ last'.kind = "filed"
                /\ last'.src = PathOf(f)
                /\ \E g \in fs' : PathOf(g) = last'.tgt /\ g.id = f.id /\ InDestination(g)]_vars

\* C1 witness: a file was filed under a suffixed name beside the file that was
\* in the destination before the run and is still there, untouched.
C1_Witness ==
    /\ last.kind = "filed"
    /\ last.tgt.base = <<"a", "_", "1">>
    /\ MkFile(FiledJpgDir(cfg.dest), <<"a">>, "jpg", 5, NoExif, {Today}) \in fs

\* the companions the run found in place when it started
CompanionsAtStart(p) ==
    {g \in fs0 : g.dir = p.dir /\ g.base = p.base /\ g.ext \in {"nef", "NEF", "arw", "ARW", "dng", "DNG", "raf", "RAF"}}

\* the companion's date: its EXIF date when it has one, else its filesystem date
CompanionDate(g) ==
    IF get_exif_date(fs0, PathOf(g)) # {} THEN get_exif_date(fs0, PathOf(g)) ELSE g.fsd

\* the year and day folders a filing went under
YearDayOf(r) == SubSeq(r.tgt.dir, Len(cfg.dest) + 1, Len(cfg.dest) + 2)

\* C2: a file of a RAW-sibling format filed by the current run, that had a
\* companion RAW file in its directory when the run started, is filed under the
\* year and day folder of the companion's date.
C2_FiledUnderCompanionDate ==
    \A r \in filed :
        (r.run = run /\ LowerTok(r.src.ext) \in {"jpg", "jpeg", "cr2", "png", "xmp"}) =>
            \A g \in CompanionsAtStart(r.src) :
                \A d \in CompanionDate(g) : YearDayOf(r) = <<<<d.y>>, <<d.y, d.md>>>>

\* C4: a filing uses the original file name when the target directory holds no
\* file of that name, and otherwise base_N.ext for the smallest N >= 1 such that
\* the directory holds no base_N.ext; when the directory held no file before and
\* nothing failed, the k filings under one name are name, name_1 .. name_(k-1).
C4_SmallestFreeSuffix ==
    [][/\ last'.kind = "filed" =>
             LET s == last'.src
                 t == last'.tgt
                 At(b) == [dir |-> t.dir, base |-> b, ext |-> s.ext]
             IN  /\ t.ext = s.ext
                 /\ IF ~Exists(fs, At(s.base)) THEN t.base = s.base
                    ELSE \E N \in 1..Len(Digits) :
                            /\ t.base = s.base \o <<"_", IntStr(N)>>
                            /\ ~Exists(fs, At(t.base))
                            /\ \A M \in 1..(N - 1) : Exists(fs, At(s.base \o <<"_", IntStr(M)>>))
       /\ (nfail' = 0 /\ \A f \in fs' : f.id \notin {5, 6}) =>
             \A r \in filed' :
                 LET same == {q \in filed' : q.tgt.dir = r.tgt.dir /\ q.src.base = r.src.base /\ q.src.ext = r.src.ext}
                 IN  {q.tgt.base : q \in same} = SuffixedBases(r.src.base, Cardinality(same))]_vars

\* C4 witness: three files of one name went to one directory, as a.jpg, a_1.jpg
\* and a_2.jpg.
C4_Witness ==
    /\ nfail = 0
    /\ \A f \in fs : f.id \notin {5, 6}
    /\ \E d \in {FiledJpgDir(cfg.dest)} :
          {q.tgt.base : q \in {r \in filed : r.tgt.dir = d}} = {<<"a">>, <<"a", "_", "1">>, <<"a", "_", "2">>}

\* C5: no file that lies in the destination root or in a directory nested under
\* it is counted, copied or moved.
C5_DestinationNeverWalked ==
    last.kind \in {"filed", "failed"} => ~IsUnder(last.src.dir, cfg.dest)

\* C6: a source photo filed by one run is not filed again by a later run.
C6_NeverRefiled ==
    \A r1, r2 \in filed : r1.run < r2.run => r1.src # r2.src

\* C6 as amended: in move mode a later run never files from a path an earlier run
\* moved a photo from; in copy mode the photo is still in the source tree, and a
\* later run that files it again adds a suffixed copy beside the earlier one.
C6_RefiledOnlyByCopy ==
    \A r1, r2 \in filed :
        (r1.run < r2.run /\ r1.src = r2.src) =>
            /\ cfg.copy_files
            /\ r2.tgt # r1.tgt
            /\ Exists(fs, r1.tgt)
            /\ Exists(fs, r2.tgt)
            /\ Len(r2.tgt.base) > Len(r2.src.base)

\* C6 witness: in copy mode the second run filed again a photo the first run had filed.
C6_Witness ==
    /\ cfg.copy_files
    /\ \E r1, r2 \in filed : r1.run = 1 /\ r2.run = 2 /\ r1.src = r2.src

\* C7: a failing per-file step counts one skipped file and one error message,
\* leaves organized alone and leaves the walk where it was, with the rest of the
\* listing still to process; the statistics are returned only when the walk has
\* nothing left, and they are the statistics of the run.
C7_FailSoft ==
    [][/\ last'.kind = "failed" =>
             /\ stats'.skipped = stats.skipped + 1
             /\ Len(stats'.errors) = Len(stats.errors) + 1
             /\ stats'.organized = stats.organized
             /\ files' = Tail(files)
             /\ stack' = stack
             /\ pc' = "walk"
       /\ returned' # returned =>
             /\ files = <<>>
             /\ stack = <<>>
             /\ returned' = Append(returned, stats)
             /\ Len(returned') = run]_vars

\* C7 witness: a run that had a failure went on, filed a later file and returned
\* its statistics.
C7_Witness ==
    \E i \in 1..Len(returned) :
        /\ returned[i].skipped = 1
        /\ Len(returned[i].errors) = 1
        /\ returned[i].organized >= 1
        /\ \E r \in filed : r.run = i /\ r.src # returned[i].errors[1].path /\ r.src.dir = returned[i].errors[1].path.dir

(***************************************************************************)
(* get_photo_date on its own: one directory, one media file to resolve,    *)
(* and the RAW files beside it                                             *)
(***************************************************************************)

\* RAW files beside the file to resolve
MaxBeside == 2

NoConfig == [source |-> <<>>, dest |-> <<>>, copy_files |-> TRUE]

\* the file to resolve: its EXIF says D1, its filesystem date is D2
Subjects ==
    {MkFile(SrcDir, <<"a">>, e, 1, exif, fsd) :
        e \in {"jpg", "JPG", "Jpg", "jpeg", "cr2", "png", "xmp", "gif", "dng"},
        exif \in {NoExif, BadImage, ExifOrig("v20200102")},
        fsd \in {{D2}, {}}}

\* the RAW files beside it: their EXIF says D3, their filesystem date is D4
Beside ==
    {MkFile(SrcDir, b, e, 2, exif, fsd) :
        b \in {<<"a">>},
        e \in {"nef", "NEF", "arw"},
        exif \in {NoExif, BadImage, ExifOrig("v20190708"), ExifOrig("v00000000")},
        fsd \in {{D4}, {}}}
    \cup {MkFile(SrcDir, <<"b">>, "NEF", 2, ExifOrig("v20190708"), {D4})}

DateTrees ==
    {{f} \cup R : f \in Subjects,
                 R \in {Q \in SetsUpTo(Beside, MaxBeside) :
                           \A x, y \in Q : PathOf(x) = PathOf(y) => x = y}}

InitDate ==
    /\ fs \in DateTrees
    /\ \E f \in fs :
          /\ f.id = 1
          /\ dq = [phase |-> "ask", path |-> PathOf(f), res |-> [raised |-> FALSE, date |-> {}]]
    /\ cfg = NoConfig
    /\ dirs = Prefixes(SrcDir)
    /\ pc = "off"
    /\ stack = <<>>
    /\ files = <<>>
    /\ root = <<>>
    /\ stats = NewStats
    /\ run = 0
    /\ nfail = 0
    /\ returned = <<>>
    /\ last = NoStep
    /\ filed = {}
    /\ fs0 = {}
    /\ dup = NoDup
    /\ scan = NoScan
    /\ cln = NoCleanup

\* photo_date = get_photo_date(file_path)
ResolveDate ==
    /\ dq.phase = "ask"
    /\ dq' = [dq EXCEPT !.phase = "done", !.res = get_photo_date(fs, dq.path)]
    /\ UNCHANGED <<fs, dup, scan, cln>>
    /\ UNCHANGED orgVars

NextDate == ResolveDate

SpecDate == InitDate /\ [][NextDate]_vars

\* what get_file_creation_date makes of a file
FsDateOf(f) == [raised |-> f.fsd = {}, date |-> f.fsd]

CompanionsOf(p) ==
    {g \in fs : g.dir = p.dir /\ g.base = p.base /\ g.ext \in {"nef", "NEF", "arw", "ARW", "dng", "DNG", "raf", "RAF"}}

HasSiblingFormat(p) == LowerTok(p.ext) \in {"jpg", "jpeg", "cr2", "png", "xmp"}

\* C3: for a path of a RAW-sibling format, get_photo_date answers with a
\* companion's EXIF date when a companion exists and has one, with that
\* companion's filesystem date when it has none, and with the path's own
\* filesystem date when there is no companion: never with the path's own EXIF.
C3_SiblingPrecedence ==
    (dq.phase = "done" /\ HasSiblingFormat(dq.path)) =>
        IF CompanionsOf(dq.path) # {}
        THEN \E c \in CompanionsOf(dq.path) :
                dq.res = IF get_exif_date(fs, PathOf(c)) # {}
                         THEN [raised |-> FALSE, date |-> get_exif_date(fs, PathOf(c))]
                         ELSE FsDateOf(c)
        ELSE dq.res = FsDateOf(FileAt(fs, dq.path))

\* C3 witness: a .jpg with a valid DateTimeOriginal and no companion resolved to
\* its filesystem date.
C3_Witness ==
    /\ dq.phase = "done"
    /\ HasSiblingFormat(dq.path)
    /\ CompanionsOf(dq.path) = {}
    /\ get_exif_date(fs, dq.path) = {D1}
    /\ dq.res = [raised |-> FALSE, date |-> {D2}]

\* the file whose dates get_photo_date reads for path p, and whether it reads its EXIF
DateSources(p) ==
    IF HasSiblingFormat(p) /\ CompanionsOf(p) # {} THEN CompanionsOf(p) ELSE {FileAt(fs, p)}

ReadsExif(p) == ~HasSiblingFormat(p) \/ CompanionsOf(p) # {}

\* C10: get_photo_date returns exactly one date and never raises.
C10_Total ==
    dq.phase = "done" => (~dq.res.raised /\ Cardinality(dq.res.date) = 1)

\* C10 as amended: get_photo_date returns exactly one date unless the file whose
\* filesystem date it has to fall back to cannot be read (os.stat or the
\* timestamp conversion raises), and then it raises; no state of the EXIF
\* metadata makes it fail.
C10_TotalButForStat ==
    dq.phase = "done" =>
        /\ ~dq.res.raised => Cardinality(dq.res.date) = 1
        /\ dq.res.raised =>
              \E s \in DateSources(dq.path) :
                  /\ s.fsd = {}
                  /\ ReadsExif(dq.path) => get_exif_date(fs, PathOf(s)) = {}
        /\ (\A s \in DateSources(dq.path) :
                /\ s.fsd = {}
                /\ ReadsExif(dq.path) => get_exif_date(fs, PathOf(s)) = {}) => dq.res.raised

\* C10 witness: the companion has no EXIF date and its filesystem date cannot be
\* read, and get_photo_date raised.
C10_Witness ==
    /\ dq.phase = "done"
    /\ dq.res.raised
    /\ \E c \in CompanionsOf(dq.path) : c.fsd = {} /\ c.exif = ExifOrig("v00000000")

(***************************************************************************)
(* find_duplicates_in_folder(folder_path)                                  *)
(*                                                                         *)
(* A listing entry is [base, ext, size, isfile]: a name of the folder, its *)
(* size in bytes, and whether os.path.isfile holds of it.                  *)
(***************************************************************************)

\* SIMILARITY_THRESHOLD = 0.80, in hundredths
SIMILARITY_THRESHOLD == 80

fd_image_extensions ==
    {"jpg", "jpeg", "png", "gif", "bmp", "tiff", "tif", "webp", "heic", "heif",
     "raw", "cr2", "nef", "arw", "dng", "orf", "rw2", "pef", "srw", "raf",
     "psd", "xmp", "avi", "mov", "wmv"}

\* is_image_file of find_duplicates.py
fd_is_image_file(e) == LowerTok(e.ext) \in fd_image_extensions

\* get_base_name(filename)
get_base_name(e) == e.base

\* the file name as a string: base, dot, extension
FileName(e) == e.base \o <<".", e.ext>>

\* sub in s (the substring test)
HasSub(s, sub) == \E i \in 1..(Len(s) - Len(sub) + 1) : SubSeq(s, i, i + Len(sub) - 1) = sub

\* a test for "final" that forgets to lower-case the file name
names_final_case_sensitive(e) == HasSub(FileName(e), <<"f", "i", "n", "a", "l">>)

\* 'final' in filename.lower()
names_final(e) == HasSub(LowerStr(FileName(e)), <<"f", "i", "n", "a", "l">>)

\* the entries the listing loop does not `continue` on
kept(e) == e.isfile /\ fd_is_image_file(e) /\ ~names_final(e)

\* the dict the loop appends to size_ext_groups[key]
file_info(e) ==
    [filename |-> [base |-> e.base, ext |-> e.ext], base_name |-> get_base_name(e),
     size |-> e.size, extension |-> LowerTok(e.ext)]

RECURSIVE listed_infos(_)
\* the kept entries of the listing, in listing order
listed_infos(listing) ==
    IF listing = <<>> THEN <<>>
    ELSE (IF kept(Head(listing)) THEN <<file_info(Head(listing))>> ELSE <<>>) \o listed_infos(Tail(listing))

KeyOf(x) == <<x.extension, x.size>>

RECURSIVE group_keys(_, _)
\* the keys of size_ext_groups in the order the dict received them
group_keys(infos, seen) ==
    IF infos = <<>> THEN <<>>
    ELSE IF KeyOf(Head(infos)) \in seen THEN group_keys(Tail(infos), seen)
    ELSE <<KeyOf(Head(infos))>> \o group_keys(Tail(infos), seen \cup {KeyOf(Head(infos))})

\* size_ext_groups[key]
group_files(infos, key) == SelectSeq(infos, LAMBDA x : KeyOf(x) = key)

RECURSIVE RunLen(_, _, _, _)
\* the length of the common run of a from i and of b from j
RunLen(a, b, i, j) ==
    IF i > Len(a) \/ j > Len(b) THEN 0
    ELSE IF a[i] # b[j] THEN 0
    ELSE 1 + RunLen(a, b, i + 1, j + 1)

\* the block to prefer among T, a set of <<i, j, k>>: the longest, of those the
\* one that starts earliest in a, of those the one that starts earliest in b
best_block(T) ==
    CHOOSE c \in T : \A d \in T :
        \/ c[3] > d[3]
        \/ c[3] = d[3] /\ (c[1] < d[1] \/ (c[1] = d[1] /\ c[2] <= d[2]))

\* SequenceMatcher.find_longest_match: the longest common block <<i, j, k>> of a and b
find_longest_match(a, b) ==
    best_block({<<i, j, RunLen(a, b, i, j)>> : i \in 1..Len(a), j \in 1..Len(b)})

RECURSIVE matching_total(_, _)
RECURSIVE blocks_around(_, _, _)
\* the sizes of the matching blocks of a and b, m being their longest one: m, then
\* the blocks to its left and to its right
blocks_around(a, b, m) ==
    IF m[3] = 0 THEN 0
    ELSE m[3] + matching_total(SubSeq(a, 1, m[1] - 1), SubSeq(b, 1, m[2] - 1))
              + matching_total(SubSeq(a, m[1] + m[3], Len(a)), SubSeq(b, m[2] + m[3], Len(b)))

\* the sum of the sizes of SequenceMatcher.get_matching_blocks
matching_total(a, b) ==
    IF a = <<>> \/ b = <<>> THEN 0 ELSE blocks_around(a, b, find_longest_match(a, b))

\* SequenceMatcher(None, name1.lower(), name2.lower()).ratio() as the fraction
\* <<2 * matches, length>>
sequence_ratio(name1, name2) ==
    <<2 * matching_total(LowerStr(name1), LowerStr(name2)), Len(name1) + Len(name2)>>

\* the base names a folder of the model can hold
BaseNames ==
    {<<"o", "f", "i", "n", "a">>, <<"o", "f", "i", "n", "b">>, <<"b", "f", "i", "n", "a">>,
     <<"O", "F", "I", "N", "A">>, <<"o", "F", "I", "N", "A", "L">>}

\* sequence_ratio, worked out once for every pair of base names
RatioTable == [pair \in BaseNames \X BaseNames |-> sequence_ratio(pair[1], pair[2])]

\* filename_similarity(name1, name2)
filename_similarity(name1, name2) == RatioTable[<<name1, name2>>]

\* a comparison that leaves the threshold itself out
similar_strict(name1, name2) ==
    LET r == filename_similarity(name1, name2)
    IN  IF r[2] = 0 THEN TRUE ELSE r[1] * 100 > SIMILARITY_THRESHOLD * r[2]

\* similarity >= SIMILARITY_THRESHOLD (the ratio of two empty names is 1.0)
similar(name1, name2) ==
    LET r == filename_similarity(name1, name2)
    IN  IF r[2] = 0 THEN TRUE ELSE r[1] * 100 >= SIMILARITY_THRESHOLD * r[2]

\* the members of S in increasing order
Ascending(S, n) == SelectSeq([k \in 1..n |-> k], LAMBDA k : k \in S)

\* a clustering that compares a file with every seed, taken or not
cluster_group_no_processed(fl, i, processed) ==
    LET Joined(s) == {j \in 1..Len(fl) : j # s /\ similar(fl[s].base_name, fl[j].base_name)}
        Members(s) == <<fl[s]>> \o [k \in 1..Cardinality(Joined(s)) |-> fl[Ascending(Joined(s), Len(fl))[k]]]
        seeds == SelectSeq([k \in 1..Len(fl) |-> k], LAMBDA s : Joined(s) # {})
    IN  [k \in 1..Len(seeds) |-> Members(seeds[k])]

RECURSIVE cluster_group(_, _, _)
\* the loops over one group's files from index i on: file i, when not processed,
\* is a seed and takes every file not processed that is similar to it
cluster_group(fl, i, processed) ==
    IF i > Len(fl) THEN <<>>
    ELSE IF i \in processed THEN cluster_group(fl, i + 1, processed)
    ELSE LET joined == {j \in 1..Len(fl) :
                           j \notin (processed \cup {i}) /\ similar(fl[i].base_name, fl[j].base_name)}
             order == Ascending(joined, Len(fl))
             similar_files == <<fl[i]>> \o [k \in 1..Len(order) |-> fl[order[k]]]
         IN  (IF Len(similar_files) > 1 THEN <<similar_files>> ELSE <<>>)
                 \o cluster_group(fl, i + 1, processed \cup {i} \cup joined)

RECURSIVE cluster_groups(_, _)
\* the loop over size_ext_groups.items(): the clusters of every group of more than one file
cluster_groups(infos, keys) ==
    IF keys = <<>> THEN <<>>
    ELSE LET fl == group_files(infos, Head(keys))
             found == IF Len(fl) > 1 THEN cluster_group(fl, 1, {}) ELSE <<>>
         IN  [k \in 1..Len(found) |-> [extension |-> Head(keys)[1], size |-> Head(keys)[2], files |-> found[k]]]
                 \o cluster_groups(infos, Tail(keys))

\* find_duplicates_in_folder: the values of `duplicates` in the order of their keys
find_duplicates_in_folder(listing) ==
    cluster_groups(listed_infos(listing), group_keys(listed_infos(listing), {}))

\* entries of the folder
MaxListing == 3

Entry(b, e, size, isfile) == [base |-> b, ext |-> e, size |-> size, isfile |-> isfile]

\* ofina ~ ofinb and ofina ~ bfina at exactly 0.80, ofinb and bfina at 0.60
FolderEntries ==
    {Entry(b, "jpg", 1, TRUE) : b \in BaseNames} \cup
    {
     Entry(<<"o", "f", "i", "n", "b">>, "jpg", 2, TRUE),
     Entry(<<"o", "f", "i", "n", "b">>, "JPG", 1, TRUE),
     Entry(<<"o", "f", "i", "n", "b">>, "png", 1, TRUE),
     Entry(<<"o", "f", "i", "n", "b">>, "txt", 1, TRUE),
     Entry(<<"o", "f", "i", "n", "b">>, "jpg", 1, FALSE)}

RECURSIVE Listings(_)
\* the listings of n entries: no two entries of a folder have the same name
Listings(n) ==
    IF n = 0 THEN {<<>>}
    ELSE {Append(l, e) : l \in Listings(n - 1), e \in FolderEntries}

DistinctNames(l) == \A i, j \in 1..Len(l) : i # j => FileName(l[i]) # FileName(l[j])

\* what os.listdir can give of a folder of at most MaxListing entries
FolderListings == {l \in UNION {Listings(n) : n \in 0..MaxListing} : DistinctNames(l)}

InitDup ==
    /\ dup \in {[phase |-> "listed", listing |-> l, out |-> <<>>] : l \in FolderListings}
    /\ cfg = NoConfig
    /\ fs = {}
    /\ dirs = {}
    /\ pc = "off"
    /\ stack = <<>>
    /\ files = <<>>
    /\ root = <<>>
    /\ stats = NewStats
    /\ run = 0
    /\ nfail = 0
    /\ returned = <<>>
    /\ last = NoStep
    /\ filed = {}
    /\ fs0 = {}
    /\ dq = NoQuery
    /\ scan = NoScan
    /\ cln = NoCleanup

\* a call of find_duplicates_in_folder on the folder
FindDuplicates ==
    /\ dup.phase = "listed"
    /\ dup' = [dup EXCEPT !.phase = "done", !.out = find_duplicates_in_folder(dup.listing)]
    /\ UNCHANGED <<fs, dq, scan, cln>>
    /\ UNCHANGED orgVars

NextDup == FindDuplicates

SpecDup == InitDup /\ [][NextDup]_vars

(***************************************************************************)
(* Properties of SpecDup                                                   *)
(***************************************************************************)

\* the entry of the listing a cluster member was made from
EntriesNamed(listing, m) ==
    {i \in 1..Len(listing) : listing[i].base = m.filename.base /\ listing[i].ext = m.filename.ext}

\* C8: every cluster returned for a folder has at least 2 members; every member
\* has the cluster's lower-cased extension and the cluster's size, is a regular
\* media file of the folder, and has no "final" in its name in any letter case
C8_ClusterInvariants ==
    dup.phase = "done" =>
        \A c \in 1..Len(dup.out) :
            /\ Len(dup.out[c].files) >= 2
            /\ \A k \in 1..Len(dup.out[c].files) :
                  LET m == dup.out[c].files[k]
                  IN  /\ m.extension = dup.out[c].extension
                      /\ m.size = dup.out[c].size
                      /\ EntriesNamed(dup.listing, m) # {}
                      /\ \A i \in EntriesNamed(dup.listing, m) :
                            LET e == dup.listing[i]
                            IN  /\ e.isfile
                                /\ LowerTok(e.ext) \in fd_image_extensions
                                /\ LowerTok(e.ext) = dup.out[c].extension
                                /\ e.size = dup.out[c].size
                                /\ ~HasSub(LowerStr(FileName(e)), <<"f", "i", "n", "a", "l">>)

\* a cluster was returned for a folder that also holds a media file of the
\* cluster's extension and size named "...FINAL..." in upper case
C8_Witness ==
    /\ dup.phase = "done"
    /\ \E c \in 1..Len(dup.out) : \E i \in 1..Len(dup.listing) :
          LET e == dup.listing[i]
          IN  /\ e.isfile
              /\ LowerTok(e.ext) = dup.out[c].extension
              /\ e.size = dup.out[c].size
              /\ HasSub(FileName(e), <<"F", "I", "N", "A", "L">>)

\* base-name similarity at or above 0.80
WithinThreshold(e1, e2) ==
    LET r == filename_similarity(e1.base, e2.base)
    IN  r[1] * 100 >= 80 * r[2]

RECURSIVE GreedyPartition(_)
\* the greedy seed-anchored partition of a sequence of entries: the first is a
\* seed, the later ones within threshold of it join it, the others are
\* partitioned in turn
GreedyPartition(es) ==
    IF es = <<>> THEN <<>>
    ELSE LET seed == Head(es)
             taken == SelectSeq(Tail(es), LAMBDA x : WithinThreshold(seed, x))
             left == SelectSeq(Tail(es), LAMBDA x : ~WithinThreshold(seed, x))
         IN  <<(<<seed>> \o taken)>> \o GreedyPartition(left)

\* the regular media files of the listing without "final" in their name that
\* have the extension and size of key, in listing order
GroupOf(listing, key) ==
    SelectSeq(listing, LAMBDA e :
        /\ e.isfile
        /\ LowerTok(e.ext) \in fd_image_extensions
        /\ ~HasSub(LowerStr(FileName(e)), <<"f", "i", "n", "a", "l">>)
        /\ <<LowerTok(e.ext), e.size>> = key)

NamesOf(members) == [k \in 1..Len(members) |-> <<members[k].base, members[k].ext>>]

\* the clusters returned for key, each as the names of its members
ReturnedFor(key) ==
    LET mine == SelectSeq(dup.out, LAMBDA c : <<c.extension, c.size>> = key)
    IN  [c \in 1..Len(mine) |->
            [k \in 1..Len(mine[c].files) |->
                <<mine[c].files[k].filename.base, mine[c].files[k].filename.ext>>]]

\* the parts of more than one member of the greedy partition of key's group
ExpectedFor(key) ==
    LET parts == SelectSeq(GreedyPartition(GroupOf(dup.listing, key)), LAMBDA q : Len(q) > 1)
    IN  [c \in 1..Len(parts) |-> NamesOf(parts[c])]

ListingKeys == {<<LowerTok(dup.listing[i].ext), dup.listing[i].size>> : i \in 1..Len(dup.listing)}

\* C9: within each (extension, size) group the clusters returned are the parts
\* of more than one file of the greedy seed-anchored partition in listing order,
\* with the threshold 0.80 inclusive; a file is in at most one cluster and every
\* non-seed member is within threshold of the seed of its cluster
C9_GreedySeedAnchored ==
    dup.phase = "done" =>
        /\ \A key \in ListingKeys : ReturnedFor(key) = ExpectedFor(key)
        /\ \A c \in 1..Len(dup.out) : <<dup.out[c].extension, dup.out[c].size>> \in ListingKeys
        /\ \A c1, c2 \in 1..Len(dup.out) :
              \A k1 \in 1..Len(dup.out[c1].files) : \A k2 \in 1..Len(dup.out[c2].files) :
                  dup.out[c1].files[k1].filename = dup.out[c2].files[k2].filename
                      => c1 = c2 /\ k1 = k2
        /\ \A c \in 1..Len(dup.out) : \A k \in 2..Len(dup.out[c].files) :
              WithinThreshold([base |-> dup.out[c].files[1].base_name],
                              [base |-> dup.out[c].files[k].base_name])

\* a seed took a file at exactly 0.80, and a later file of the group that is
\* within threshold of that member but not of the seed is in no cluster
C9_Witness ==
    /\ dup.phase = "done"
    /\ \E c \in 1..Len(dup.out) : \E k \in 2..Len(dup.out[c].files) :
          LET seed == dup.out[c].files[1]
              m == dup.out[c].files[k]
              r == filename_similarity(seed.base_name, m.base_name)
              group == GroupOf(dup.listing, <<dup.out[c].extension, dup.out[c].size>>)
          IN  /\ r[1] * 100 = 80 * r[2]
              /\ \E g \in 1..Len(group) :
                    /\ WithinThreshold([base |-> m.base_name], group[g])
                    /\ ~WithinThreshold([base |-> seed.base_name], group[g])
                    /\ \A c2 \in 1..Len(dup.out) : \A k2 \in 1..Len(dup.out[c2].files) :
                          dup.out[c2].files[k2].filename # [base |-> group[g].base, ext |-> group[g].ext]

(***************************************************************************)
(* scan_for_duplicates: the walk over the folders of a tree, each folder   *)
(* with its listing and with the failure, if any, that reading it meets    *)
(***************************************************************************)

\* folders of the walk
MaxFolders == 2

\* the folders in the order os.walk visits them, top-down
WalkDirs == <<<<<<"r">>>>, <<<<"r">>, <<"x">>>>, <<<<"r">>, <<"y">>>>, <<<<"r">>, <<"y">>, <<"z">>>>>>

\* what a folder can hold
ScanListings ==
    {<<Entry(<<"o", "f", "i", "n", "a">>, "jpg", 1, TRUE)>>,
     <<Entry(<<"o", "f", "i", "n", "a">>, "jpg", 1, TRUE),
       Entry(<<"o", "f", "i", "n", "b">>, "jpg", 1, TRUE),
       Entry(<<"b", "f", "i", "n", "a">>, "jpg", 1, TRUE)>>}

\* what reading a folder can meet: nothing; a failure of the walk's own listing
\* (at "walk"); an exception of os.listdir (at 0) or of os.path.getsize on the
\* entry at index `at`, a PermissionError or another OSError
FolderFaults(listing) ==
    {[kind |-> "none", at |-> 0], [kind |-> "walk", at |-> 0]} \cup
    {[kind |-> k, at |-> n] : k \in {"PermissionError", "OSError"},
                              n \in {0} \cup {i \in 1..Len(listing) : kept(listing[i])}}

Folder(d, listing, fault) == [dir |-> d, listing |-> listing, fault |-> fault]

\* the folder contents of d
FoldersAt(d) == UNION {{Folder(d, l, f) : f \in FolderFaults(l)} : l \in ScanListings}

RECURSIVE Trees(_)
\* the trees of the first n folders
Trees(n) ==
    IF n = 0 THEN {<<>>}
    ELSE {Append(t, f) : t \in Trees(n - 1), f \in FoldersAt(WalkDirs[n])}

\* the try block of find_duplicates_in_folder on a folder: the listing loop stops
\* at the exception; a PermissionError is caught and the groups gathered so far
\* are clustered, any other exception leaves the function
find_duplicates_in_folder_io(folder) ==
    IF folder.fault.kind \in {"none", "walk"}
    THEN [raised |-> FALSE, out |-> find_duplicates_in_folder(folder.listing)]
    ELSE IF folder.fault.kind = "PermissionError"
    THEN [raised |-> FALSE,
          out |-> find_duplicates_in_folder(SubSeq(folder.listing, 1, folder.fault.at - 1))]
    ELSE [raised |-> TRUE, out |-> <<>>]

\* the excluded-folder test of the scan; no folder is excluded when none is given
scan_skips(rootdir, excluded_folder) ==
    \E x \in excluded_folder :
        \/ normalized(rootdir) = normalized(x)
        \/ StartsWith(normalized(rootdir), normalized(x) \o <<"/">>)

\* the dup_info values of one folder
dup_infos(folder, out) == [k \in 1..Len(out) |-> [folder |-> folder.dir, info |-> out[k]]]

InitScan ==
    /\ scan \in {[phase |-> "walk", tree |-> t, todo |-> t, excluded_folder |-> x,
                  all_duplicates |-> <<>>, result |-> <<>>] :
                    t \in Trees(MaxFolders), x \in {{}, {WalkDirs[2]}}}
    /\ cfg = NoConfig
    /\ fs = {}
    /\ dirs = {}
    /\ pc = "off"
    /\ stack = <<>>
    /\ files = <<>>
    /\ root = <<>>
    /\ stats = NewStats
    /\ run = 0
    /\ nfail = 0
    /\ returned = <<>>
    /\ last = NoStep
    /\ filed = {}
    /\ fs0 = {}
    /\ dq = NoQuery
    /\ dup = NoDup
    /\ cln = NoCleanup

\* os.walk cannot list the next folder: it yields neither the folder nor what is under it
WalkPasses ==
    /\ scan.phase = "walk"
    /\ scan.todo # <<>>
    /\ Head(scan.todo).fault.kind = "walk"
    /\ scan' = [scan EXCEPT !.todo = SelectSeq(Tail(scan.todo),
                                LAMBDA g : ~IsUnder(g.dir, Head(scan.todo).dir))]
    /\ UNCHANGED <<fs, dq, dup, cln>>
    /\ UNCHANGED orgVars

\* the walk yields an excluded folder: continue
ScanSkips ==
    /\ scan.phase = "walk"
    /\ scan.todo # <<>>
    /\ Head(scan.todo).fault.kind # "walk"
    /\ scan_skips(Head(scan.todo).dir, scan.excluded_folder)
    /\ scan' = [scan EXCEPT !.todo = Tail(scan.todo)]
    /\ UNCHANGED <<fs, dq, dup, cln>>
    /\ UNCHANGED orgVars

\* the walk yields a folder and find_duplicates_in_folder returns its clusters
ScanFolder ==
    /\ scan.phase = "walk"
    /\ scan.todo # <<>>
    /\ Head(scan.todo).fault.kind # "walk"
    /\ ~scan_skips(Head(scan.todo).dir, scan.excluded_folder)
    /\ ~find_duplicates_in_folder_io(Head(scan.todo)).raised
    /\ scan' = [scan EXCEPT !.todo = Tail(scan.todo),
                            !.all_duplicates = scan.all_duplicates \o
                                dup_infos(Head(scan.todo), find_duplicates_in_folder_io(Head(scan.todo)).out)]
    /\ UNCHANGED <<fs, dq, dup, cln>>
    /\ UNCHANGED orgVars

\* the walk yields a folder and find_duplicates_in_folder raises: nothing in
\* scan_for_duplicates catches it
ScanRaises ==
    /\ scan.phase = "walk"
    /\ scan.todo # <<>>
    /\ Head(scan.todo).fault.kind # "walk"
    /\ ~scan_skips(Head(scan.todo).dir, scan.excluded_folder)
    /\ find_duplicates_in_folder_io(Head(scan.todo)).raised
    /\ scan' = [scan EXCEPT !.phase = "raised"]
    /\ UNCHANGED <<fs, dq, dup, cln>>
    /\ UNCHANGED orgVars

\* return all_duplicates
ScanReturn ==
    /\ scan.phase = "walk"
    /\ scan.todo = <<>>
    /\ scan' = [scan EXCEPT !.phase = "returned", !.result = scan.all_duplicates]
    /\ UNCHANGED <<fs, dq, dup, cln>>
    /\ UNCHANGED orgVars

NextScan == WalkPasses \/ ScanSkips \/ ScanFolder \/ ScanRaises \/ ScanReturn

SpecScan == InitScan /\ [][NextScan]_vars

\* the folders the scan has come to
Visited == {scan.tree[k] : k \in 1..(Len(scan.tree) - Len(scan.todo))}

\* C11: a failure while a folder is read gives no cluster for that folder, built
\* from a partial listing or otherwise, and never ends the scan: the scan goes on
\* and returns the clusters of every other folder it walks
C11_ListingFailureFailSoft ==
    /\ scan.phase # "raised"
    /\ \A k \in 1..Len(scan.all_duplicates) :
          \A f \in Visited :
              f.dir = scan.all_duplicates[k].folder => f.fault.kind = "none"
    /\ scan.phase = "returned" =>
          \A f \in Visited :
              (f.fault.kind = "none" /\ ~scan_skips(f.dir, scan.excluded_folder)
                  /\ \A g \in Visited : g.fault.kind = "walk" => ~IsUnder(f.dir, g.dir)) =>
                  \A c \in 1..Len(find_duplicates_in_folder(f.listing)) :
                      \E k \in 1..Len(scan.result) :
                          scan.result[k] = [folder |-> f.dir, info |-> find_duplicates_in_folder(f.listing)[c]]

(***************************************************************************)
(* delete_empty_folders.py: delete_junk_files and delete_empty_folders on  *)
(* a tree.  Here a file is [dir, name], the name a sequence of characters; *)
(* `dirs` holds the directories at and under folder_path.                  *)
(***************************************************************************)

\* files of the tree
MaxJunk == 2

\* files and directories whose removal fails
MaxLocked == 1

\* calls of delete_junk_files and delete_empty_folders
MaxCalls == 2

\* the length up to which the errors list is told apart
MaxErrors == 2

CleanRoot == <<<<"r">>>>

ExcludedDir == <<<<"r">>, <<"e">>>>

CleanDirs ==
    {CleanRoot, ExcludedDir, ExcludedDir \o <<<<"k">>>>, CleanRoot \o <<<<"a">>>>,
     CleanRoot \o <<<<"a">>, <<"b">>>>, CleanRoot \o <<<<"e", "b">>>>}

\* ".bak", ".BAKa" and "a.bak"
CleanNames == {<<".", "b", "a", "k">>, <<".", "B", "A", "K", "a">>, <<"a", ".", "b", "a", "k">>}

CleanFiles ==
    {[dir |-> d, name |-> n] : d \in {CleanRoot \o <<<<"a">>>>, ExcludedDir}, n \in CleanNames}

CleanTrees ==
    {T \in SUBSET CleanDirs : CleanRoot \in T /\ \A d \in T : d = CleanRoot \/ SubSeq(d, 1, Len(d) - 1) \in T}

\* junk_patterns, each without its trailing "*"
junk_patterns ==
    <<<<".", "B", "r", "i", "d", "g", "e">>, <<".", "p", "i", "c", "a", "s">>, <<".", "b", "a", "k">>>>

\* fnmatch.fnmatch(filename.lower(), pattern.lower()) for some pattern
is_junk(name) ==
    \E k \in 1..Len(junk_patterns) : StartsWith(LowerStr(name), LowerStr(junk_patterns[k]))

\* the excluded-folder test of the two walks; nothing is excluded when no folder is given
clean_skips(rootdir, excluded_folder) ==
    \E x \in excluded_folder :
        \/ normalized(rootdir) = normalized(x)
        \/ StartsWith(normalized(rootdir), normalized(x) \o <<"/">>)

\* find_junk_files(folder_path, excluded_folder)
find_junk_files(fsys, ds, folder_path, excluded_folder) ==
    {f \in fsys : /\ f.dir \in ds
                  /\ IsUnder(f.dir, folder_path)
                  /\ ~clean_skips(f.dir, excluded_folder)
                  /\ is_junk(f.name)}

\* find_empty_folders(folder_path, excluded_folder)
find_empty_folders(fsys, ds, folder_path, excluded_folder) ==
    {d \in ds : /\ IsUnder(d, folder_path)
                /\ ~clean_skips(d, excluded_folder)
                /\ ~\E c \in ds : Len(c) = Len(d) + 1 /\ IsUnder(c, d)
                /\ ~\E f \in fsys : f.dir = d}

\* a directory as something whose removal can fail
DirItself(d) == [dir |-> d, name |-> <<>>]

CleanStats == [deleted |-> 0, errors |-> 0]

\* stats["errors"].append(...), the list told by its length up to MaxErrors
clean_error(st) == [st EXCEPT !.errors = IF st.errors < MaxErrors THEN st.errors + 1 ELSE MaxErrors]

clean_deleted(st) == [st EXCEPT !.deleted = st.deleted + 1]

InitClean ==
    /\ dirs \in CleanTrees
    /\ fs \in {F \in SetsUpTo(CleanFiles, MaxJunk) : \A f \in F : f.dir \in dirs}
    /\ cln \in {[phase |-> "idle", folder_path |-> CleanRoot, excluded_folder |-> x, locked |-> k,
                 junk_files |-> {}, empty_folders |-> {}, stats |-> CleanStats, calls |-> 0,
                 removed |-> {}, returned |-> "none"] :
                   x \in {{}, {ExcludedDir}, {RootDir}}, k \in SetsUpTo({DirItself(d) : d \in CleanDirs} \cup CleanFiles, MaxLocked)}
    /\ \A x \in cln.excluded_folder : x = RootDir \/ x \in dirs
    /\ cln.locked \subseteq {DirItself(d) : d \in dirs} \cup fs
    /\ cfg = NoConfig
    /\ pc = "off"
    /\ stack = <<>>
    /\ files = <<>>
    /\ root = <<>>
    /\ stats = NewStats
    /\ run = 0
    /\ nfail = 0
    /\ returned = <<>>
    /\ last = NoStep
    /\ filed = {}
    /\ fs0 = {}
    /\ dq = NoQuery
    /\ dup = NoDup
    /\ scan = NoScan

cleanFrame == <<cfg, pc, stack, files, root, stats, run, nfail, returned, last, filed, fs0, dq, dup, scan>>

\* delete_junk_files is called: the junk files are found
StartJunk ==
    /\ cln.phase = "idle"
    /\ cln.calls < MaxCalls
    /\ cln' = [cln EXCEPT !.phase = "junk", !.calls = cln.calls + 1, !.stats = CleanStats,
                          !.returned = "none",
                          !.junk_files = find_junk_files(fs, dirs, cln.folder_path, cln.excluded_folder)]
    /\ UNCHANGED <<fs, dirs>>
    /\ UNCHANGED cleanFrame

\* os.remove(file_path) of the next junk file
RemoveJunk ==
    /\ cln.phase = "junk"
    /\ \E f \in cln.junk_files :
          IF f \in cln.locked
          THEN /\ cln' = [cln EXCEPT !.junk_files = cln.junk_files \ {f}, !.stats = clean_error(cln.stats)]
               /\ fs' = fs
          ELSE /\ cln' = [cln EXCEPT !.junk_files = cln.junk_files \ {f}, !.stats = clean_deleted(cln.stats),
                                     !.removed = cln.removed \cup {[dir |-> f.dir, file |-> TRUE]}]
               /\ fs' = fs \ {f}
    /\ UNCHANGED dirs
    /\ UNCHANGED cleanFrame

\* delete_junk_files returns
JunkReturn ==
    /\ cln.phase = "junk"
    /\ cln.junk_files = {}
    /\ cln' = [cln EXCEPT !.phase = "idle", !.returned = "junk"]
    /\ UNCHANGED <<fs, dirs>>
    /\ UNCHANGED cleanFrame

\* delete_empty_folders is called, or its for loop has ended: the top of the
\* while loop, which finds the empty folders and breaks when there is none
Sweep ==
    /\ \/ cln.phase = "idle" /\ cln.calls < MaxCalls
       \/ cln.phase = "sweep" /\ cln.empty_folders = {}
    /\ LET found == find_empty_folders(fs, dirs, cln.folder_path, cln.excluded_folder)
           st == IF cln.phase = "idle" THEN CleanStats ELSE cln.stats
           n == IF cln.phase = "idle" THEN cln.calls + 1 ELSE cln.calls
       IN  cln' = IF found = {}
                  THEN [cln EXCEPT !.phase = "idle", !.returned = "sweep", !.stats = st, !.calls = n]
                  ELSE [cln EXCEPT !.phase = "sweep", !.returned = "none", !.stats = st, !.calls = n,
                                   !.empty_folders = found]
    /\ UNCHANGED <<fs, dirs>>
    /\ UNCHANGED cleanFrame

\* os.rmdir(folder) of the next folder of the sweep
Rmdir ==
    /\ cln.phase = "sweep"
    /\ \E d \in cln.empty_folders :
          IF DirItself(d) \in cln.locked
          THEN /\ cln' = [cln EXCEPT !.empty_folders = cln.empty_folders \ {d}, !.stats = clean_error(cln.stats)]
               /\ dirs' = dirs
          ELSE /\ cln' = [cln EXCEPT !.empty_folders = cln.empty_folders \ {d}, !.stats = clean_deleted(cln.stats),
                                     !.removed = cln.removed \cup {[dir |-> d, file |-> FALSE]}]
               /\ dirs' = dirs \ {d}
    /\ UNCHANGED fs
    /\ UNCHANGED cleanFrame

NextClean == StartJunk \/ RemoveJunk \/ JunkReturn \/ Sweep \/ Rmdir

SpecClean == InitClean /\ [][NextClean]_vars

\* the cleaner goes on running: a step that can be taken is taken
SpecCleanFair == SpecClean /\ WF_vars(NextClean)

(***************************************************************************)
(* Properties of the cleaner                                               *)
(***************************************************************************)

\* d is inside the excluded folder: the folder itself or nested under it
InExcluded(d) == \E x \in cln.excluded_folder : IsUnder(d, x)

\* no directory at or under folder_path, outside the excluded folder, is empty
NoEmptyFolderLeft ==
    \A d \in dirs :
        (IsUnder(d, cln.folder_path) /\ ~InExcluded(d)) =>
            \/ \E c \in dirs : Len(c) = Len(d) + 1 /\ IsUnder(c, d)
            \/ \E f \in fs : f.dir = d

\* C12: delete_empty_folders always returns, whatever the tree and whether the
\* removals succeed or fail, and when it has returned no directory under the
\* root outside the excluded folder is empty
C12_SweepsEndWithNoEmptyFolder ==
    /\ [](cln.returned = "sweep" => NoEmptyFolderLeft)
    /\ [](cln.phase = "sweep" => <>(cln.returned = "sweep"))

\* C16: nothing removed by delete_junk_files or delete_empty_folders is the
\* excluded folder, lies under it, or is a directory above it
C16_ExcludedNeverDeleted ==
    \A x \in cln.excluded_folder : \A r \in cln.removed :
        /\ ~IsUnder(r.dir, x)
        /\ ~r.file => ~IsUnder(x, r.dir)

(***************************************************************************)
(* get_exif_date on its own: one image and what its EXIF holds             *)
(***************************************************************************)

\* tags of an image's EXIF
MaxTags == 2

ExifTagNames == {"DateTimeOriginal", "DateTimeDigitized", "Make"}

\* a date, another date, and a value strptime cannot parse
ExifValues == {"v20200102", "v20210504", "v00000000"}

RECURSIVE TagLists(_)
\* exif_data.items() of at most n tags, in the order the dict gives them
TagLists(n) ==
    IF n = 0 THEN {<<>>}
    ELSE TagLists(n - 1) \cup
         {Append(t, <<name, v>>) : t \in {u \in TagLists(n - 1) : Len(u) = n - 1},
                                   name \in ExifTagNames, v \in ExifValues}

DistinctTags(t) == \A i, j \in 1..Len(t) : i # j => t[i][1] # t[j][1]

ExifData ==
    {[readable |-> r, tags |-> t] : r \in BOOLEAN, t \in {u \in TagLists(MaxTags) : DistinctTags(u)}}

InitExif ==
    /\ fs \in {{MkFile(SrcDir, <<"a">>, "NEF", 1, x, {D4})} : x \in ExifData}
    /\ \E f \in fs :
          dq = [phase |-> "exif", path |-> PathOf(f), res |-> [raised |-> FALSE, date |-> {}]]
    /\ cfg = NoConfig
    /\ dirs = Prefixes(SrcDir)
    /\ pc = "off"
    /\ stack = <<>>
    /\ files = <<>>
    /\ root = <<>>
    /\ stats = NewStats
    /\ run = 0
    /\ nfail = 0
    /\ returned = <<>>
    /\ last = NoStep
    /\ filed = {}
    /\ fs0 = {}
    /\ dup = NoDup
    /\ scan = NoScan
    /\ cln = NoCleanup

\* exif_date = get_exif_date(image_path)
ReadExif ==
    /\ dq.phase = "exif"
    /\ dq' = [dq EXCEPT !.phase = "read", !.res = [raised |-> FALSE, date |-> get_exif_date(fs, dq.path)]]
    /\ UNCHANGED <<fs, dup, scan, cln>>
    /\ UNCHANGED orgVars

NextExif == ReadExif

SpecExif == InitExif /\ [][NextExif]_vars

\* the values the image's EXIF holds under a tag name
TagValues(name) ==
    {t[2] : t \in {FileAt(fs, dq.path).exif.tags[i] : i \in 1..Len(FileAt(fs, dq.path).exif.tags)} \cap
                  ({name} \X ExifValues)}

\* C13: get_exif_date answers with DateTimeOriginal whenever the EXIF holds a
\* DateTimeOriginal that is a date, whatever DateTimeDigitized is and wherever it
\* stands; with DateTimeDigitized only when there is no DateTimeOriginal; with
\* none when there is neither, or when the image or the value to return cannot
\* be decoded; and it never raises
C13_OriginalTakesPrecedence ==
    dq.phase = "read" =>
        /\ ~dq.res.raised
        /\ IF ~FileAt(fs, dq.path).exif.readable THEN dq.res.date = {}
           ELSE IF TagValues("DateTimeOriginal") # {}
                THEN \A v \in TagValues("DateTimeOriginal") : dq.res.date = strptime(v)
           ELSE IF TagValues("DateTimeDigitized") # {}
                THEN \A v \in TagValues("DateTimeDigitized") : dq.res.date = strptime(v)
           ELSE dq.res.date = {}

(***************************************************************************)
(* find_matching_raw_file on its own: one path and the files beside it     *)
(***************************************************************************)

\* the paths asked about
RawSubjects ==
    {MkFile(SrcDir, <<"a">>, e, 1, NoExif, {D2}) : e \in {"jpg", "png", "nef", "NEF"}}

\* the files beside: the same base name, the same in another case, another name
RawBeside ==
    {MkFile(SrcDir, b, e, 2, NoExif, {D4}) :
        b \in {<<"a">>, <<"A">>, <<"b">>},
        e \in {"nef", "NEF", "Nef", "arw", "ARW", "dng", "raf", "RAF", "jpg"}}

RawTrees ==
    {T \in {{f} \cup R : f \in RawSubjects, R \in SetsUpTo(RawBeside, MaxBeside)} :
        \A x, y \in T : PathOf(x) = PathOf(y) => x = y}

InitRaw ==
    /\ fs \in RawTrees
    /\ \E f \in fs :
          /\ f.id = 1
          /\ dq = [phase |-> "raw", path |-> PathOf(f), res |-> [raised |-> FALSE, date |-> {}], raw_file |-> {}]
    /\ cfg = NoConfig
    /\ dirs = Prefixes(SrcDir)
    /\ pc = "off"
    /\ stack = <<>>
    /\ files = <<>>
    /\ root = <<>>
    /\ stats = NewStats
    /\ run = 0
    /\ nfail = 0
    /\ returned = <<>>
    /\ last = NoStep
    /\ filed = {}
    /\ fs0 = {}
    /\ dup = NoDup
    /\ scan = NoScan
    /\ cln = NoCleanup

\* raw_file = find_matching_raw_file(image_path)
FindRaw ==
    /\ dq.phase = "raw"
    /\ dq' = [dq EXCEPT !.phase = "found", !.raw_file = find_matching_raw_file(fs, dq.path)]
    /\ UNCHANGED <<fs, dup, scan, cln>>
    /\ UNCHANGED orgVars

NextRaw == FindRaw

SpecRaw == InitRaw /\ [][NextRaw]_vars

\* the order in which the candidates are to be tried
CandidateOrder == <<"nef", "NEF", "arw", "ARW", "dng", "DNG", "raf", "RAF">>

CandidateExts == {CandidateOrder[k] : k \in 1..Len(CandidateOrder)}

\* the first of the candidates, in order, that some file of M has as its extension
FirstIn(M) == CHOOSE k \in 1..Len(CandidateOrder) :
                  /\ \E g \in M : g.ext = CandidateOrder[k]
                  /\ \A j \in 1..(k - 1) : \A g \in M : g.ext # CandidateOrder[j]

\* the files beside the path with its base name in any letter case and a candidate extension
MatchesAnyCase ==
    {g \in fs : g.dir = dq.path.dir /\ LowerStr(g.base) = LowerStr(dq.path.base) /\ g.ext \in CandidateExts}

\* the files beside the path with exactly its base name and a candidate extension
MatchesSameName ==
    {g \in fs : g.dir = dq.path.dir /\ g.base = dq.path.base /\ g.ext \in CandidateExts}

\* C14: find_matching_raw_file returns the first existing candidate in the order
\* .nef, .NEF, .arw, .ARW, .dng, .DNG, .raf, .RAF, a file matching when its base
\* name is the path's in any letter case; it returns none only when there is no
\* such file, and never the path itself
C14_FirstCandidateAnyCase ==
    dq.phase = "found" =>
        /\ dq.raw_file # {dq.path}
        /\ IF MatchesAnyCase = {} THEN dq.raw_file = {}
           ELSE \E g \in MatchesAnyCase :
                   /\ g.ext = CandidateOrder[FirstIn(MatchesAnyCase)]
                   /\ dq.raw_file = {PathOf(g)}

\* C14 as amended: the base name has to be the path's own, letter for letter;
\* the first existing candidate in the fixed order is returned, none when there
\* is none, and the path itself only when its own extension is a candidate
C14_FirstCandidateSameName ==
    dq.phase = "found" =>
        /\ dq.path.ext \notin CandidateExts => dq.raw_file # {dq.path}
        /\ IF MatchesSameName = {} THEN dq.raw_file = {}
           ELSE \E g \in MatchesSameName :
                   /\ g.ext = CandidateOrder[FirstIn(MatchesSameName)]
                   /\ dq.raw_file = {PathOf(g)}

\* beside a.jpg stand A.nef and a.arw, and a.arw is returned
C14_Witness ==
    /\ dq.phase = "found"
    /\ dq.path = [dir |-> SrcDir, base |-> <<"a">>, ext |-> "jpg"]
    /\ \E g \in fs : g.base = <<"A">> /\ g.ext = "nef"
    /\ dq.raw_file = {[dir |-> SrcDir, base |-> <<"a">>, ext |-> "arw"]}

(***************************************************************************)
(* The statistics of a filing run                                          *)
(***************************************************************************)

Balanced(st) == st.total_found = st.organized + st.skipped /\ Len(st.errors) = st.skipped

\* what the current run has filed
FiledThisRun == {r \in filed : r.run = run}

\* how often the current run has handled path p: filed it, or failed on it
Handled(p) ==
    Cardinality({r \in FiledThisRun : r.src = p})
        + Cardinality({k \in 1..Len(stats.errors) : stats.errors[k].path = p})

\* C15: after each file, and in the statistics returned, total_found is
\* organized + skipped and errors has one message per skipped file; only media
\* files are counted; a media file of the source tree outside the destination
\* subtree is counted once by the run, as organized or as skipped, and a
\* non-media file not at all
C15_StatsAccounting ==
    /\ Balanced(stats)
    /\ \A i \in 1..Len(returned) : Balanced(returned[i])
    /\ stats.organized = Cardinality(FiledThisRun)
    /\ \A r \in FiledThisRun : is_image_file(r.src)
    /\ \A k \in 1..Len(stats.errors) : is_image_file(stats.errors[k].path)
    /\ \A f \in fs0 : ~IsUnder(f.dir, cfg.dest) => Handled(PathOf(f)) <= 1
    /\ last.kind = "return" =>
          /\ returned[Len(returned)] = stats
          /\ \A f \in fs0 :
                (IsUnder(f.dir, cfg.source) /\ ~IsUnder(f.dir, cfg.dest)) =>
                    Handled(PathOf(f)) = IF is_image_file(PathOf(f)) THEN 1 ELSE 0

\* a run returned with one file found and skipped, its source tree holding a
\* media file outside the destination and a file that is no media file
C15_Witness ==
    /\ last.kind = "return"
    /\ stats.total_found = 1
    /\ stats.skipped = 1
    /\ \E f, g \in fs0 :
          /\ IsUnder(f.dir, cfg.source) /\ ~IsUnder(f.dir, cfg.dest) /\ is_image_file(PathOf(f))
          /\ IsUnder(g.dir, cfg.source) /\ ~IsUnder(g.dir, cfg.dest) /\ ~is_image_file(PathOf(g))

====
